---- MODULE Spec2Model ----
(***************************************************************************)
(* A model of logseq_to_org_roam.py (class LogseqToOrgRoamConverter).      *)
(*                                                                         *)
(* Text is a sequence of symbols.  A symbol is a one-character string, or  *)
(* an atom standing for a run of characters that no pattern of the program *)
(* can split: a temporary token ##TEMP_<family>_<hex>##, the word          *)
(* ORG_ELEMENT_<n> of a protection placeholder, or a generated uuid.       *)
(***************************************************************************)
EXTENDS Integers, Sequences, FiniteSets, TLC

VARIABLES
    arg,             \* the argument(s) of the function under study
    res,             \* the results obtained so far, in order
    logseq_dir,      \* the input directory: whether it exists, its folders, its documents
    output_dir,      \* the documents of the output tree, by path, and its assets
    page_ids,        \* self.page_ids
    block_ids,       \* self.block_ids
    existing_pages,  \* self.existing_pages
    missing_pages,   \* self.missing_pages
    file_to_title,   \* self.file_to_title
    stats,           \* self.stats
    uuids,           \* the number of calls of generate_uuid so far
    pc,              \* the pass of convert_all the run is in
    todo,            \* what the loop of the current pass has still to visit
    exit_code,       \* <<code>> once main has returned, <<>> while it runs
    write_failures,  \* the number of writes to the output tree that failed
    written          \* the paths written in the output tree, in order

funVars == <<arg, res>>
runVars == <<logseq_dir, output_dir, page_ids, block_ids, existing_pages,
             missing_pages, file_to_title, stats, uuids, pc, todo, exit_code,
             write_failures, written>>
vars == <<arg, res, logseq_dir, output_dir, page_ids, block_ids, existing_pages,
          missing_pages, file_to_title, stats, uuids, pc, todo, exit_code,
          write_failures, written>>

\* the fields of a converter as __init__ leaves them, before main has looked
\* at the input directory
Constructed ==
    /\ output_dir = [files |-> <<>>, assets |-> 0]
    /\ page_ids = <<>>
    /\ block_ids = <<>>
    /\ existing_pages = {}
    /\ missing_pages = {}
    /\ file_to_title = <<>>
    /\ stats = [files_processed |-> 0, missing_pages_created |-> 0,
                assets_copied |-> 0, errors |-> <<>>, warnings |-> <<>>]
    /\ uuids = 0
    /\ pc = "main"
    /\ todo = {}
    /\ exit_code = <<>>
    /\ write_failures = 0
    /\ written = <<>>

\* no run: the specifications of single functions leave the converter alone
NoRun ==
    /\ Constructed
    /\ logseq_dir = [exists |-> FALSE, folders |-> {}, files |-> <<>>]

----------------------------------------------------------------------------
(* Character classes of Python's re module, over the symbols of the model. *)

Space == " "
Tab == "\t"
NL == "\n"
\* the backquote character, which a TLA+ string cannot hold
Backtick == "BACKTICK"

\* \s (and the characters str.strip() removes)
WS == {Space, Tab, NL, "\r"}

Digits == {"0", "1", "2", "3", "4", "5", "6", "7", "8", "9"}

Lower == {"a", "b", "c", "d", "e", "f", "g", "h", "i", "j", "k", "l", "m",
          "n", "o", "p", "q", "r", "s", "t", "u", "v", "w", "x", "y", "z"}

Upper == {"A", "B", "C", "D", "E", "F", "G", "H", "I", "J", "K", "L", "M",
          "N", "O", "P", "Q", "R", "S", "T", "U", "V", "W", "X", "Y", "Z"}

----------------------------------------------------------------------------
(* Sequence helpers.                                                       *)

Min(a, b) == IF a < b THEN a ELSE b

\* all texts over alphabet A of length at most n
Texts(A, n) == UNION {[1..k -> A] : k \in 0..n}

\* s[i..j], empty when j < i
Slice(s, i, j) == IF j < i THEN <<>> ELSE SubSeq(s, i, j)

\* s from position i to its end
From(s, i) == Slice(s, i, Len(s))

RECURSIVE Concat(_)
Concat(ss) == IF ss = <<>> THEN <<>> ELSE Head(ss) \o Concat(Tail(ss))

\* n copies of symbol c
Rep(c, n) == [k \in 1..n |-> c]

\* number of positions of s holding symbol c: str.count(c)
Count(s, c) == Cardinality({k \in 1..Len(s) : s[k] = c})

\* whether the symbols of p stand in s from position i on
At(s, i, p) == /\ i >= 1
               /\ i + Len(p) - 1 <= Len(s)
               /\ \A k \in 1..Len(p) : s[i + k - 1] = p[k]

\* re.sub(r'[C]', '', s)
RemoveChars(s, C) == SelectSeq(s, LAMBDA c : c \notin C)

\* s.replace(c, r) for a one-character c
ReplaceChar(s, c, r) == Concat([k \in 1..Len(s) |-> IF s[k] = c THEN r ELSE <<s[k]>>])

\* str.strip()
Strip(s) ==
    LET keep == {k \in 1..Len(s) : s[k] \notin WS}
    IN  IF keep = {} THEN <<>>
        ELSE LET first == CHOOSE k \in keep : \A m \in keep : k <= m
                 last == CHOOSE k \in keep : \A m \in keep : m <= k
             IN  SubSeq(s, first, last)

----------------------------------------------------------------------------
(* normalize_page_name                                                     *)

MarkupChars == {"*", Backtick, "~"}
IllegalChars == {"<", ">", ":", "\"", "|", "?", "*"}
NamespaceSub == <<"_", "_", "_">>

\* the cleaning done in the wrong order: whitespace trimmed before the
\* characters are removed
normalize_page_name_StripFirst(page_name) ==
    RemoveChars(ReplaceChar(RemoveChars(Strip(page_name), MarkupChars), "/", NamespaceSub),
                IllegalChars)

normalize_page_name(page_name) ==
    Strip(RemoveChars(ReplaceChar(RemoveChars(page_name, MarkupChars), "/", NamespaceSub),
                      IllegalChars))

----------------------------------------------------------------------------
(* Line structure: content.split('\n') and '\n'.join(lines).               *)

\* the position of the first c in s at or after i, Len(s) + 1 when none
RECURSIVE IndexFrom(_, _, _)
IndexFrom(s, i, c) ==
    IF i > Len(s) THEN Len(s) + 1
    ELSE IF s[i] = c THEN i
    ELSE IndexFrom(s, i + 1, c)

RECURSIVE SplitLines(_)
SplitLines(s) ==
    LET e == IndexFrom(s, 1, NL)
    IN  IF e > Len(s) THEN <<s>>
        ELSE <<Slice(s, 1, e - 1)>> \o SplitLines(From(s, e + 1))

RECURSIVE JoinLines(_)
JoinLines(lines) ==
    IF Len(lines) = 0 THEN <<>>
    ELSE IF Len(lines) = 1 THEN lines[1]
    ELSE lines[1] \o <<NL>> \o JoinLines(Tail(lines))

\* the number of symbols of class C standing in s from position i on
RECURSIVE RunLen(_, _, _)
RunLen(s, i, C) ==
    IF i > Len(s) \/ s[i] \notin C THEN 0
    ELSE 1 + RunLen(s, i + 1, C)

\* The tail \s+(.+) of a pattern, tried at position i of a line: the position
\* where group (.+) starts, 0 when the tail does not match.  \s+ is greedy and
\* gives one character back when nothing else is left for (.+).
TextAfterWs(s, i) ==
    LET m == RunLen(s, i, WS)
    IN  IF m = 0 THEN 0
        ELSE IF i + m <= Len(s) THEN i + m
        ELSE IF m >= 2 THEN Len(s)
        ELSE 0

----------------------------------------------------------------------------
(* convert_hierarchical_structure                                          *)

TODO == <<"T", "O", "D", "O">>
DONE == <<"D", "O", "N", "E">>
LATER == <<"L", "A", "T", "E", "R">>
NOW == <<"N", "O", "W">>
DOING == <<"D", "O", "I", "N", "G">>
WAITING == <<"W", "A", "I", "T", "I", "N", "G">>
CANCELLED == <<"C", "A", "N", "C", "E", "L", "L", "E", "D">>
OVERDUE == <<"O", "V", "E", "R", "D", "U", "E">>

\* the alternatives of the task pattern, in the order the pattern tries them
TaskKeywords == <<TODO, DONE, LATER, NOW, DOING, WAITING, CANCELLED, OVERDUE>>

\* self.task_states with NOW kept as a state of its own
task_states_NowKept(kw) ==
    IF kw = OVERDUE THEN TODO ELSE kw

\* self.task_states.get(kw, 'TODO')
task_states(kw) ==
    IF kw \in {TODO, DONE, LATER, DOING, WAITING, CANCELLED} THEN kw
    ELSE TODO

\* the heading level without the limit of 6
HeadingLevel_NoCap(indent_str) ==
    ((Count(indent_str, Tab) * 2 + Count(indent_str, Space)) \div 2) + 1

\* level = min((indent // 2) + 1, 6), indent = tabs * 2 + spaces
HeadingLevel(indent_str) ==
    Min(((Count(indent_str, Tab) * 2 + Count(indent_str, Space)) \div 2) + 1, 6)

\* re.match(r'\[( |x|X)\]\s+(.+)', text): the start of group 2, 0 when no match
CheckboxMatch(text) ==
    IF /\ Len(text) >= 3
       /\ text[1] = "["
       /\ text[2] \in {Space, "x", "X"}
       /\ text[3] = "]"
    THEN TextAfterWs(text, 4)
    ELSE 0

\* re.match(r'^(TODO|...|OVERDUE)\s+(.+)$', text): <<keyword, start of group
\* 2>>, <<>> when no match
TaskMatch(text) ==
    LET hits == {k \in 1..Len(TaskKeywords) :
                    /\ At(text, 1, TaskKeywords[k])
                    /\ TextAfterWs(text, Len(TaskKeywords[k]) + 1) > 0}
    IN  IF hits = {} THEN <<>>
        ELSE LET k == CHOOSE h \in hits : \A g \in hits : h <= g
             IN  <<TaskKeywords[k], TextAfterWs(text, Len(TaskKeywords[k]) + 1)>>

\* the heading made of a list item's indentation and text
ItemHeading(indent_str, text) ==
    LET stars == Rep("*", HeadingLevel(indent_str))
        cb == CheckboxMatch(text)
        task == TaskMatch(text)
    IN  IF cb > 0
        THEN stars \o <<Space>>
                 \o (IF text[2] \in {"x", "X"} THEN DONE ELSE TODO)
                 \o <<Space>> \o From(text, cb)
        ELSE IF task # <<>>
        THEN stars \o <<Space>> \o task_states(task[1]) \o <<Space>> \o From(text, task[2])
        ELSE stars \o <<Space>> \o text

\* one line of the loop: re.match(r'^(\s*)-\s+(.+)$', line)
ConvertLine(line) ==
    LET w == RunLen(line, 1, WS)
        t == IF w + 1 <= Len(line) /\ line[w + 1] = "-"
             THEN TextAfterWs(line, w + 2)
             ELSE 0
    IN  IF t > 0 THEN ItemHeading(Slice(line, 1, w), From(line, t))
        ELSE line

convert_hierarchical_structure(content) ==
    LET lines == SplitLines(content)
    IN  JoinLines([k \in 1..Len(lines) |-> ConvertLine(lines[k])])

----------------------------------------------------------------------------
(* Pattern substitution: re.sub and re.findall.  A pattern is given by an  *)
(* operator M(s, i), the position where its leftmost match starting at i   *)
(* ends (0 when it does not match at i; no pattern of the program matches  *)
(* the empty text), and a replacement R(s, i, e, n) for the n-th match     *)
(* s[i..e].  The scan resumes after each match.                            *)

MinOf(S) == CHOOSE x \in S : \A y \in S : x <= y
MaxOf(S) == CHOOSE x \in S : \A y \in S : y <= x

\* the first position from i on where the pattern matches, 0 when none
NextMatch(s, i, M(_, _)) ==
    LET hits == {k \in i..Len(s) : M(s, k) > 0}
    IN  IF hits = {} THEN 0 ELSE MinOf(hits)

ReSub(s, n0, M(_, _), R(_, _, _, _)) ==
    LET RECURSIVE go(_, _)
        go(i, n) ==
            LET k == NextMatch(s, i, M)
            IN  IF k = 0 THEN From(s, i)
                ELSE Slice(s, i, k - 1) \o R(s, k, M(s, k), n)
                         \o go(M(s, k) + 1, n + 1)
    IN  go(1, n0)

\* the matches <<i, e>> of a pattern in s, left to right
ReMatches(s, M(_, _)) ==
    LET RECURSIVE go(_)
        go(i) ==
            LET k == NextMatch(s, i, M)
            IN  IF k = 0 THEN <<>>
                ELSE <<(<<k, M(s, k)>>)>> \o go(M(s, k) + 1)
    IN  go(1)

\* str.replace(pat, rep)
ReplaceAll(s, pat, rep) ==
    ReSub(s, 0, LAMBDA t, i : IF At(t, i, pat) THEN i + Len(pat) - 1 ELSE 0,
                LAMBDA t, i, e, n : rep)

\* the position of the first symbol of class C in s at or after i,
\* Len(s) + 1 when none
RECURSIVE IndexOfAny(_, _, _)
IndexOfAny(s, i, C) ==
    IF i > Len(s) THEN Len(s) + 1
    ELSE IF s[i] \in C THEN i
    ELSE IndexOfAny(s, i + 1, C)

\* ^ and $ under re.MULTILINE, at the position before symbol i
IsLineStart(s, i) == i = 1 \/ s[i - 1] = NL
IsLineEnd(s, i) == i > Len(s) \/ s[i] = NL

\* the last position of the line that holds position i (i - 1 when the line
\* is empty from i on)
LineEnd(s, i) == IndexFrom(s, i, NL) - 1

\* \s{lo,}(.+) tried at position p, where \s also matches line breaks and .
\* does not: the start of group (.+), 0 when there is no match.  \s is greedy
\* and gives back characters until (.+) finds one it can take.
GroupAfterWs(s, p, lo) ==
    LET m == RunLen(s, p, WS)
        ok == {k \in lo..m : p + k <= Len(s) /\ s[p + k] # NL}
    IN  IF ok = {} THEN 0 ELSE p + MaxOf(ok)

----------------------------------------------------------------------------
(* convert_markdown_to_org: the temporary tokens and the protection of     *)
(* text that is already in the target dialect.                             *)

\* temp_tokens: each is ##TEMP_<family>_<8 hex digits>##, one symbol here
TEMP_CODE == "TEMP_CODE"
TEMP_BOLD == "TEMP_BOLD"
TEMP_ITALIC == "TEMP_ITALIC"
TEMP_STRIKE == "TEMP_STRIKE"
TEMP_LINK == "TEMP_LINK"
TempTokens == {TEMP_CODE, TEMP_BOLD, TEMP_ITALIC, TEMP_STRIKE, TEMP_LINK}

\* the words ORG_ELEMENT_<n> of the placeholders __ORG_ELEMENT_<n>__
OrgElementWords == <<"ORG_ELEMENT_0", "ORG_ELEMENT_1", "ORG_ELEMENT_2",
                     "ORG_ELEMENT_3", "ORG_ELEMENT_4", "ORG_ELEMENT_5">>
OrgElementWordSet == {OrgElementWords[k] : k \in 1..Len(OrgElementWords)}

\* f'__ORG_ELEMENT_{n}__'
OrgPlaceholder(n) == <<"_", "_", OrgElementWords[n + 1], "_", "_">>

\* \w
WordChars == Lower \cup Upper \cup Digits \cup {"_"} \cup OrgElementWordSet
\* [a-zA-Z0-9_]
AsciiWordChars == Lower \cup Upper \cup Digits \cup {"_"} \cup OrgElementWordSet

\* r'\[\[id:[^\]]+\]\[[^\]]+\]\]'
M_OrgLink(s, i) ==
    IF ~At(s, i, <<"[", "[", "i", "d", ":">>) THEN 0
    ELSE LET j == IndexFrom(s, i + 5, "]")
         IN  IF ~(j > i + 5 /\ j + 1 <= Len(s) /\ s[j + 1] = "[") THEN 0
             ELSE LET k == IndexFrom(s, j + 2, "]")
                  IN  IF k > j + 2 /\ k + 1 <= Len(s) /\ s[k + 1] = "]"
                      THEN k + 1 ELSE 0

\* r'^\*+\s+.*$' with re.MULTILINE
M_OrgHeading(s, i) ==
    IF ~(IsLineStart(s, i) /\ s[i] = "*") THEN 0
    ELSE LET p == i + RunLen(s, i, {"*"})
             m == RunLen(s, p, WS)
         IN  IF m = 0 THEN 0 ELSE LineEnd(s, p + m)

\* preserve_org: the n-th protected element leaves placeholder n
R_Preserve(s, i, e, n) == OrgPlaceholder(n)

\* the texts of the matches of a pattern, in order
MatchTexts(s, M(_, _)) ==
    LET ms == ReMatches(s, M)
    IN  [k \in 1..Len(ms) |-> SubSeq(s, ms[k][1], ms[k][2])]

----------------------------------------------------------------------------
(* convert_markdown_to_org: headings, rules, code and quote blocks.        *)

\* r'^(#{1,6})\s+(.+)$' with re.MULTILINE
M_Header(s, i) ==
    IF ~(IsLineStart(s, i) /\ s[i] = "#") THEN 0
    ELSE LET h == RunLen(s, i, {"#"})
             g == GroupAfterWs(s, i + h, 1)
         IN  IF h <= 6 /\ g > 0 THEN LineEnd(s, g) ELSE 0

R_Header(s, i, e, n) ==
    LET h == RunLen(s, i, {"#"})
    IN  Rep("*", h) \o <<Space>> \o Slice(s, GroupAfterWs(s, i + h, 1), e)

\* r'^---+$' with re.MULTILINE
M_Rule(s, i) ==
    IF ~(IsLineStart(s, i) /\ s[i] = "-") THEN 0
    ELSE LET d == RunLen(s, i, {"-"})
         IN  IF d >= 3 /\ IsLineEnd(s, i + d) THEN i + d - 1 ELSE 0

R_Rule(s, i, e, n) == <<"-", "-", "-", "-", "-">>

Fence == <<Backtick, Backtick, Backtick>>

\* where the body of a fenced block opening at i starts, 0 when i opens none
FenceBody(s, i) ==
    IF ~(IsLineStart(s, i) /\ At(s, i, Fence)) THEN 0
    ELSE LET w == RunLen(s, i + 3, WordChars)
         IN  IF i + 3 + w <= Len(s) /\ s[i + 3 + w] = NL THEN i + 4 + w ELSE 0

\* the positions of the line break before a closing fence of a body at b
FenceCloses(s, b) ==
    {k \in b..Len(s) : At(s, k, <<NL>> \o Fence) /\ IsLineEnd(s, k + 4)}

\* r'^```(\w+)?\n(.*?)\n```$' with re.MULTILINE | re.DOTALL
M_CodeBlock(s, i) ==
    LET b == FenceBody(s, i)
    IN  IF b = 0 \/ FenceCloses(s, b) = {} THEN 0
        ELSE MinOf(FenceCloses(s, b)) + 3

R_CodeBlock(s, i, e, n) ==
    LET b == FenceBody(s, i)
    IN  <<"#", "+", "B", "E", "G", "I", "N", "_", "S", "R", "C", Space>> \o Slice(s, i + 3, b - 2) \o <<NL>>
            \o Slice(s, b, e - 4) \o <<NL>> \o <<"#", "+", "E", "N", "D", "_", "S", "R", "C">>

\* the end of a quote block whose last matched line ends at e: the group
\* (?:\n^>\s*(.+))* takes further lines while it can
RECURSIVE QuoteEnd(_, _)
QuoteEnd(s, e) ==
    IF ~(e + 2 <= Len(s) /\ s[e + 1] = NL /\ s[e + 2] = ">") THEN e
    ELSE LET g == GroupAfterWs(s, e + 3, 0)
         IN  IF g = 0 THEN e ELSE QuoteEnd(s, LineEnd(s, g))

\* r'^>\s*(.+)(?:\n^>\s*(.+))*' with re.MULTILINE
M_Quote(s, i) ==
    IF ~(IsLineStart(s, i) /\ s[i] = ">") THEN 0
    ELSE LET g == GroupAfterWs(s, i + 1, 0)
         IN  IF g = 0 THEN 0 ELSE QuoteEnd(s, LineEnd(s, g))

R_Quote(s, i, e, n) ==
    <<"#", "+", "B", "E", "G", "I", "N", "_", "Q", "U", "O", "T", "E", NL>>
        \o ReplaceAll(ReplaceAll(SubSeq(s, i, e), <<">", Space>>, <<>>), <<">">>, <<>>)
        \o <<NL, "#", "+", "E", "N", "D", "_", "Q", "U", "O", "T", "E">>

----------------------------------------------------------------------------
(* convert_markdown_to_org: inline formatting through temporary tokens.    *)

\* a match s[i..e] whose delimiters are d symbols long, wrapped in a token
Wrap(s, i, e, d, token) == <<token>> \o Slice(s, i + d, e - d) \o <<token>>

\* r'`([^`\n]+?)`'
M_Code(s, i) ==
    IF s[i] # Backtick THEN 0
    ELSE LET k == IndexOfAny(s, i + 1, {Backtick, NL})
         IN  IF k >= i + 2 /\ k <= Len(s) /\ s[k] = Backtick THEN k ELSE 0

R_Code(s, i, e, n) == Wrap(s, i, e, 1, TEMP_CODE)

\* r'dd([\s\S]+?)dd' for a delimiter character d
DoubleDelim(s, i, d) ==
    IF ~At(s, i, <<d, d>>) THEN 0
    ELSE LET closes == {k \in (i + 3)..(Len(s) - 1) : s[k] = d /\ s[k + 1] = d}
         IN  IF closes = {} THEN 0 ELSE MinOf(closes) + 1

\* r'\*\*([\s\S]+?)\*\*'
M_BoldStar(s, i) == DoubleDelim(s, i, "*")
\* r'__([\s\S]+?)__'
M_BoldUnder(s, i) == DoubleDelim(s, i, "_")

R_Bold(s, i, e, n) == Wrap(s, i, e, 2, TEMP_BOLD)

\* r'(?<!\*)\*([\s\S]+?)\*(?!\*)'
M_ItalicStar(s, i) ==
    IF ~(s[i] = "*" /\ (i = 1 \/ s[i - 1] # "*")) THEN 0
    ELSE LET closes == {k \in (i + 2)..Len(s) :
                           s[k] = "*" /\ (k = Len(s) \/ s[k + 1] # "*")}
         IN  IF closes = {} THEN 0 ELSE MinOf(closes)

\* r'(?<![a-zA-Z0-9_])_([\s\S]+?)_(?![a-zA-Z0-9_])'
M_ItalicUnder(s, i) ==
    IF ~(s[i] = "_" /\ (i = 1 \/ s[i - 1] \notin AsciiWordChars)) THEN 0
    ELSE LET closes == {k \in (i + 2)..Len(s) :
                           s[k] = "_" /\ (k = Len(s) \/ s[k + 1] \notin AsciiWordChars)}
         IN  IF closes = {} THEN 0 ELSE MinOf(closes)

R_Italic(s, i, e, n) == Wrap(s, i, e, 1, TEMP_ITALIC)

\* r'~~([^~\n]+?)~~'
M_Strike(s, i) ==
    IF ~At(s, i, <<"~", "~">>) THEN 0
    ELSE LET k == IndexOfAny(s, i + 2, {"~", NL})
         IN  IF k >= i + 3 /\ At(s, k, <<"~", "~">>) THEN k + 1 ELSE 0

R_Strike(s, i, e, n) == Wrap(s, i, e, 2, TEMP_STRIKE)

\* where the label of a markdown link opening at i ends (its ']'), 0 when i
\* opens none
LinkLabelEnd(s, i) ==
    IF ~(s[i] = "[" /\ (i = 1 \/ s[i - 1] # "[")) THEN 0
    ELSE LET j == IndexFrom(s, i + 1, "]")
         IN  IF j >= i + 2 /\ j + 1 <= Len(s) /\ s[j + 1] = "(" THEN j ELSE 0

\* r'(?<!\[)\[([^\]]+?)\]\(([^)]+?)\)'
M_Link(s, i) ==
    LET j == LinkLabelEnd(s, i)
    IN  IF j = 0 THEN 0
        ELSE LET k == IndexFrom(s, j + 2, ")")
             IN  IF k >= j + 3 /\ k <= Len(s) THEN k ELSE 0

\* TEMP_LINK [url][label] TEMP_LINK
R_Link(s, i, e, n) ==
    LET j == LinkLabelEnd(s, i)
    IN  <<TEMP_LINK, "[">> \o Slice(s, j + 2, e - 1) \o <<"]", "[">>
            \o Slice(s, i + 1, j - 1) \o <<"]", TEMP_LINK>>

----------------------------------------------------------------------------
(* convert_tables                                                          *)

\* re.match(r'^\|.*\|$', stripped_line)
IsTableRow(stripped) ==
    /\ Len(stripped) >= 2
    /\ stripped[1] = "|"
    /\ stripped[Len(stripped)] = "|"

\* re.match(r'^\|[-\s|:]+\|$', next_line_stripped)
IsTableSeparator(stripped) ==
    /\ Len(stripped) >= 3
    /\ stripped[1] = "|"
    /\ stripped[Len(stripped)] = "|"
    /\ \A k \in 2..(Len(stripped) - 1) : stripped[k] \in ({"-", "|", ":"} \cup WS)

\* s.split(c)
RECURSIVE SplitOn(_, _)
SplitOn(s, c) ==
    LET e == IndexFrom(s, 1, c)
    IN  IF e > Len(s) THEN <<s>>
        ELSE <<Slice(s, 1, e - 1)>> \o SplitOn(From(s, e + 1), c)

\* sep.join(parts)
RECURSIVE JoinWith(_, _)
JoinWith(parts, sep) ==
    IF Len(parts) = 0 THEN <<>>
    ELSE IF Len(parts) = 1 THEN parts[1]
    ELSE parts[1] \o sep \o JoinWith(Tail(parts), sep)

\* '| ' + ' | '.join(cells) + ' |' for the stripped cells between the bars
TableRow(stripped) ==
    LET parts == SplitOn(stripped, "|")
        cells == [k \in 1..(Len(parts) - 2) |-> Strip(parts[k + 1])]
    IN  <<"|", Space>> \o JoinWith(cells, <<Space, "|", Space>>) \o <<Space, "|">>

\* The loop over the lines from line i on.  The flag in_table of the code
\* chooses between two branches that both append the line as it is.
RECURSIVE TableLines(_, _)
TableLines(lines, i) ==
    IF i > Len(lines) THEN <<>>
    ELSE LET stripped == Strip(lines[i])
         IN  IF IsTableRow(stripped)
             THEN IF i + 1 <= Len(lines) /\ IsTableSeparator(Strip(lines[i + 1]))
                  THEN <<TableRow(stripped),
                         <<"|">> \o Rep("-", Len(stripped) - 2) \o <<"|">> >>
                           \o TableLines(lines, i + 2)
                  ELSE <<TableRow(stripped)>> \o TableLines(lines, i + 1)
             ELSE <<lines[i]>> \o TableLines(lines, i + 1)

convert_tables(content) == JoinLines(TableLines(SplitLines(content), 1))

----------------------------------------------------------------------------
(* convert_markdown_to_org: the final pass and the whole function.         *)

\* the pairs <<j, k>> at which the pattern below can match from i: group 1
\* is s[i+2..j-1], group 2 is s[j+2..k-1], neither holds a line break
LinkTokenEnds(s, i) ==
    {jk \in ((i + 2)..Len(s)) \X ((i + 4)..Len(s)) :
        /\ jk[2] >= jk[1] + 2
        /\ At(s, jk[1], <<"]", "[">>)
        /\ At(s, jk[2], <<"]", TEMP_LINK>>)
        /\ \A p \in (i + 2)..(jk[1] - 1) : s[p] # NL
        /\ \A p \in (jk[1] + 2)..(jk[2] - 1) : s[p] # NL}

\* the match the lazy groups find first: the shortest group 1, then the
\* shortest group 2
LinkTokenEnd(s, i) ==
    LET ends == LinkTokenEnds(s, i)
        j == MinOf({jk[1] : jk \in ends})
    IN  <<j, MinOf({jk[2] : jk \in {x \in ends : x[1] = j}})>>

\* re.escape(TEMP_LINK) + r'\[(.*?)\]\[(.*?)\]' + re.escape(TEMP_LINK)
M_LinkToken(s, i) ==
    IF ~At(s, i, <<TEMP_LINK, "[">>) \/ LinkTokenEnds(s, i) = {} THEN 0
    ELSE LinkTokenEnd(s, i)[2] + 1

\* r'[[\1][\2]]'
R_LinkToken(s, i, e, n) ==
    LET jk == LinkTokenEnd(s, i)
    IN  <<"[", "[">> \o Slice(s, i + 2, jk[1] - 1) \o <<"]", "[">>
            \o Slice(s, jk[1] + 2, jk[2] - 1) \o <<"]", "]">>

\* "Replace temporary tokens with org-mode formatting"
ReplaceTokens(content) ==
    LET c1 == ReplaceAll(content, <<TEMP_CODE>>, <<"=">>)
        c2 == ReplaceAll(c1, <<TEMP_BOLD>>, <<"*">>)
        c3 == ReplaceAll(c2, <<TEMP_ITALIC>>, <<"/">>)
        c4 == ReplaceAll(c3, <<TEMP_STRIKE>>, <<"+">>)
    IN  ReSub(c4, 0, M_LinkToken, R_LinkToken)

\* "Restore preserved org-mode elements": element n, then n + 1, ...
RECURSIVE RestoreOrg(_, _, _)
RestoreOrg(content, org_elements, n) ==
    IF n >= Len(org_elements) THEN content
    ELSE RestoreOrg(ReplaceAll(content, OrgPlaceholder(n), org_elements[n + 1]),
                    org_elements, n + 1)

\* the text after the protection steps, with the protected elements
ProtectOrg(content) ==
    LET links == MatchTexts(content, M_OrgLink)
        c1 == ReSub(content, 0, M_OrgLink, R_Preserve)
        headings == MatchTexts(c1, M_OrgHeading)
    IN  [content |-> ReSub(c1, Len(links), M_OrgHeading, R_Preserve),
         org_elements |-> links \o headings]

\* the steps from the headers to the tables, on protected text
RewriteMarkdown(content) ==
    LET c1 == ReSub(content, 0, M_Header, R_Header)
        c2 == ReSub(c1, 0, M_Rule, R_Rule)
        c3 == ReSub(c2, 0, M_CodeBlock, R_CodeBlock)
        c4 == ReSub(c3, 0, M_Quote, R_Quote)
        c5 == ReSub(c4, 0, M_Code, R_Code)
        c6 == ReSub(c5, 0, M_BoldStar, R_Bold)
        c7 == ReSub(c6, 0, M_BoldUnder, R_Bold)
        c8 == ReSub(c7, 0, M_ItalicStar, R_Italic)
        c9 == ReSub(c8, 0, M_ItalicUnder, R_Italic)
        c10 == ReSub(c9, 0, M_Strike, R_Strike)
        c11 == ReSub(c10, 0, M_Link, R_Link)
    IN  convert_tables(c11)

convert_markdown_to_org(content) ==
    LET p == ProtectOrg(content)
    IN  RestoreOrg(ReplaceTokens(RewriteMarkdown(p.content)), p.org_elements, 0)

----------------------------------------------------------------------------
(* Double-bracket links, block references and embeds.                      *)

\* generate_uuid(): the n-th identifier generated in a run; a uuid4 is taken
\* never to repeat
UuidAtoms == <<"UUID1", "UUID2", "UUID3", "UUID4", "UUID5", "UUID6", "UUID7",
               "UUID8", "UUID9", "UUID10", "UUID11", "UUID12", "UUID13",
               "UUID14", "UUID15", "UUID16">>
Uuid(n) == UuidAtoms[n]

\* r'\[\[([^\]]+?)\]\]' tried at i: the position of the second ']', 0 when
\* no match; group 1 is s[i+2..e-2]
WikiEnd(s, i) ==
    IF ~At(s, i, <<"[", "[">>) THEN 0
    ELSE LET j == IndexFrom(s, i + 2, "]")
         IN  IF j >= i + 3 /\ At(s, j, <<"]", "]">>) THEN j + 1 ELSE 0

\* patterns[0] of convert_double_links
M_Wiki(s, i) == WikiEnd(s, i)

\* patterns[1] of convert_double_links: r'\[\[([^\]]+?)\]\](?!\])'
M_WikiNotInner(s, i) ==
    LET e == WikiEnd(s, i)
    IN  IF e > 0 /\ ~(e + 1 <= Len(s) /\ s[e + 1] = "]") THEN e ELSE 0

\* the page half of a link text: link_text.split('|', 1)[0].strip()
LinkPage(link_text) ==
    Strip(Slice(link_text, 1, IndexFrom(link_text, 1, "|") - 1))

\* the displayed half: the stripped text after the first '|', the page half
\* when there is no '|'
LinkAlias(link_text) ==
    LET b == IndexFrom(link_text, 1, "|")
    IN  IF b <= Len(link_text) THEN Strip(From(link_text, b + 1))
        ELSE Strip(link_text)

\* f'[[id:{page_id}][{alias}]]'
IdLink(page_id, alias) == <<"[", "[", "i", "d", ":">> \o <<page_id>> \o <<"]", "[">> \o alias \o <<"]", "]">>

\* The registry a document's conversion reads and writes: page_ids,
\* block_ids, missing_pages and the number of uuids generated so far.
\* replace_link on the link text t: the registry after it.
LinkRegistry(reg, t) ==
    LET name == normalize_page_name(LinkPage(t))
    IN  IF name \in DOMAIN reg.page_ids THEN reg
        ELSE [reg EXCEPT !.page_ids = reg.page_ids @@ (name :> Uuid(reg.uuids + 1)),
                         !.missing_pages = reg.missing_pages \cup {name},
                         !.uuids = reg.uuids + 1]

\* re.sub(pattern, replace_link, content): the text and the registry
SubLinks(content, reg0, M(_, _)) ==
    LET RECURSIVE go(_, _)
        go(i, reg) ==
            LET k == NextMatch(content, i, M)
            IN  IF k = 0 THEN [content |-> From(content, i), reg |-> reg]
                ELSE LET e == M(content, k)
                         t == Slice(content, k + 2, e - 2)
                         reg1 == LinkRegistry(reg, t)
                         r == go(e + 1, reg1)
                         id == reg1.page_ids[normalize_page_name(LinkPage(t))]
                     IN  [r EXCEPT !.content = Slice(content, i, k - 1)
                                       \o IdLink(id, LinkAlias(t)) \o @]
    IN  go(1, reg0)

convert_double_links(content, reg) ==
    LET r1 == SubLinks(content, reg, M_Wiki)
    IN  SubLinks(r1.content, r1.reg, M_WikiNotInner)

\* r'\(\(([^)]+?)\)\)' tried at i: the position of the second ')', 0 when no
\* match; group 1 is s[i+2..e-2]
M_BlockRef(s, i) ==
    IF ~At(s, i, <<"(", "(">>) THEN 0
    ELSE LET j == IndexFrom(s, i + 2, ")")
         IN  IF j >= i + 3 /\ At(s, j, <<")", ")">>) THEN j + 1 ELSE 0

\* if block_ref not in self.block_ids: self.block_ids[block_ref] = uuid
BlockRegistry(reg, block_ref) ==
    IF block_ref \in DOMAIN reg.block_ids THEN reg
    ELSE [reg EXCEPT !.block_ids = reg.block_ids @@ (block_ref :> Uuid(reg.uuids + 1)),
                     !.uuids = reg.uuids + 1]

convert_block_references(content, reg0) ==
    LET RECURSIVE go(_, _)
        go(i, reg) ==
            LET k == NextMatch(content, i, M_BlockRef)
            IN  IF k = 0 THEN [content |-> From(content, i), reg |-> reg]
                ELSE LET e == M_BlockRef(content, k)
                         t == Slice(content, k + 2, e - 2)
                         reg1 == BlockRegistry(reg, t)
                         r == go(e + 1, reg1)
                     IN  [r EXCEPT !.content = Slice(content, i, k - 1)
                             \o <<"[", "[", "i", "d", ":">> \o <<reg1.block_ids[t]>> \o <<"]", "]">> \o @]
    IN  go(1, reg0)

\* str.lower() and str.upper() of one symbol
LowerSeq == <<"a", "b", "c", "d", "e", "f", "g", "h", "i", "j", "k", "l", "m",
              "n", "o", "p", "q", "r", "s", "t", "u", "v", "w", "x", "y", "z">>
UpperSeq == <<"A", "B", "C", "D", "E", "F", "G", "H", "I", "J", "K", "L", "M",
              "N", "O", "P", "Q", "R", "S", "T", "U", "V", "W", "X", "Y", "Z">>
LowerOf(c) ==
    IF c \in Upper THEN LowerSeq[CHOOSE k \in 1..26 : UpperSeq[k] = c] ELSE c
UpperOf(c) ==
    IF c \in Lower THEN UpperSeq[CHOOSE k \in 1..26 : LowerSeq[k] = c] ELSE c

\* a text matched without regard to case (re.IGNORECASE), p in lower case
AtNoCase(s, i, p) ==
    /\ i >= 1
    /\ i + Len(p) - 1 <= Len(s)
    /\ \A k \in 1..Len(p) : LowerOf(s[i + k - 1]) = p[k]

\* where group 1 of r'{{embed\s+([^}]+?)}}' starts for a match tried at i,
\* 0 when no match: \s+ gives one character back when '}' follows it
EmbedBody(s, i) ==
    IF ~AtNoCase(s, i, <<"{", "{", "e", "m", "b", "e", "d">>) THEN 0
    ELSE LET p == i + 7
             m == RunLen(s, p, WS)
             g == IF p + m <= Len(s) /\ s[p + m] # "}" THEN p + m
                  ELSE IF m >= 2 THEN p + m - 1 ELSE 0
         IN  IF m = 0 \/ g = 0 \/ g > Len(s) THEN 0
             ELSE IF At(s, IndexFrom(s, g, "}"), <<"}", "}">>) THEN g ELSE 0

\* r'{{embed\s+([^}]+?)}}' with re.IGNORECASE
M_Embed(s, i) ==
    LET g == EmbedBody(s, i)
    IN  IF g = 0 THEN 0 ELSE IndexFrom(s, g, "}") + 1

\* re.search(pattern, s): the first match <<i, e>>, <<>> when none
ReSearch(s, M(_, _)) ==
    LET hits == {i \in 1..Len(s) : M(s, i) > 0}
    IN  IF hits = {} THEN <<>> ELSE <<MinOf(hits), M(s, MinOf(hits))>>

convert_block_embeddings(content, reg0) ==
    LET RECURSIVE go(_, _)
        go(i, reg) ==
            LET k == NextMatch(content, i, M_Embed)
            IN  IF k = 0 THEN [content |-> From(content, i), reg |-> reg]
                ELSE LET e == M_Embed(content, k)
                         before == Slice(content, i, k - 1)
                         embed_content == Slice(content, EmbedBody(content, k), e - 2)
                         page_match == ReSearch(embed_content, M_Wiki)
                         block_match == ReSearch(embed_content, M_BlockRef)
                     IN  IF page_match # <<>>
                         THEN LET r == go(e + 1, reg)
                                  page_name == normalize_page_name(
                                      Slice(embed_content, page_match[1] + 2,
                                            page_match[2] - 2))
                              IN  [r EXCEPT !.content = before \o
                                      <<"#", "+", "I", "N", "C", "L", "U", "D", "E", ":", Space, "\"">> \o page_name \o <<".", "o", "r", "g", "\"">> \o @]
                         ELSE IF block_match # <<>>
                         THEN LET t == Slice(embed_content, block_match[1] + 2,
                                             block_match[2] - 2)
                                  reg1 == BlockRegistry(reg, t)
                                  r == go(e + 1, reg1)
                              IN  [r EXCEPT !.content = before \o
                                      <<"#", "+", "I", "N", "C", "L", "U", "D", "E", ":", Space, "\"", "[", "[", "i", "d", ":">> \o <<reg1.block_ids[t]>>
                                          \o <<"]", "]", "\"">> \o @]
                         ELSE LET r == go(e + 1, reg)
                              IN  [r EXCEPT !.content = before \o SubSeq(content, k, e) \o @]
    IN  go(1, reg0)

----------------------------------------------------------------------------
(* extract_properties                                                      *)

\* where the front matter of r'^---\n(.*?)\n---\n(.*)$' (re.DOTALL) ends: the
\* position of the line break before the closing '---', 0 when the content
\* does not open with front matter
FrontMatterEnd(content) ==
    IF ~At(content, 1, <<"-", "-", "-", NL>>) THEN 0
    ELSE LET closes == {k \in 5..Len(content) : At(content, k, <<NL, "-", "-", "-", NL>>)}
         IN  IF closes = {} THEN 0 ELSE MinOf(closes)

\* yaml.safe_load on a block of lines 'key: value' with plain text values:
\* the pairs <<key, value>>.  Other YAML is outside the model.
YamlPairs(block) ==
    LET lines == SplitLines(block)
        ok == SelectSeq(lines, LAMBDA l : IndexFrom(l, 1, ":") <= Len(l))
    IN  [k \in 1..Len(ok) |->
            <<Strip(Slice(ok[k], 1, IndexFrom(ok[k], 1, ":") - 1)),
              Strip(From(ok[k], IndexFrom(ok[k], 1, ":") + 1))>>]

\* r'^(\w+)::\s*(.+)$' with re.MULTILINE tried at i: where group 2 starts,
\* 0 when no match
InlinePropValue(s, i) ==
    IF ~(IsLineStart(s, i) /\ s[i] \in WordChars) THEN 0
    ELSE LET w == RunLen(s, i, WordChars)
         IN  IF At(s, i + w, <<":", ":">>) THEN GroupAfterWs(s, i + w + 2, 0) ELSE 0

M_InlineProp(s, i) ==
    LET g == InlinePropValue(s, i)
    IN  IF g = 0 THEN 0 ELSE LineEnd(s, g)

\* properties[key] = value on a sequence of pairs that keeps insertion order
SetProp(props, key, value) ==
    IF \E k \in 1..Len(props) : props[k][1] = key
    THEN [k \in 1..Len(props) |-> IF props[k][1] = key THEN <<key, value>> ELSE props[k]]
    ELSE Append(props, <<key, value>>)

RECURSIVE SetProps(_, _)
SetProps(props, pairs) ==
    IF pairs = <<>> THEN props
    ELSE SetProps(SetProp(props, pairs[1][1], pairs[1][2]), Tail(pairs))

\* properties.get(key), <<>> when absent
GetProp(props, key) ==
    IF \E k \in 1..Len(props) : props[k][1] = key
    THEN props[CHOOSE k \in 1..Len(props) : props[k][1] = key][2]
    ELSE <<>>

HasProp(props, key) == \E k \in 1..Len(props) : props[k][1] = key

\* r'\n\s*\n\s*\n' tried at i: a run of whitespace from a line break on that
\* holds three line breaks or more, taken up to its last line break
M_BlankLines(s, i) ==
    IF s[i] # NL THEN 0
    ELSE LET m == RunLen(s, i, WS)
             breaks == {k \in i..(i + m - 1) : s[k] = NL}
         IN  IF Cardinality(breaks) >= 3 THEN MaxOf(breaks) ELSE 0

extract_properties(content0) ==
    LET fm == FrontMatterEnd(content0)
        yaml == IF fm = 0 THEN <<>> ELSE YamlPairs(Slice(content0, 5, fm - 1))
        content == IF fm = 0 THEN content0 ELSE From(content0, fm + 5)
        ms == ReMatches(content, M_InlineProp)
        inline == [k \in 1..Len(ms) |->
                      <<Slice(content, ms[k][1],
                              ms[k][1] + RunLen(content, ms[k][1], WordChars) - 1),
                        Slice(content, InlinePropValue(content, ms[k][1]), ms[k][2])>>]
        c1 == ReSub(content, 0, M_InlineProp, LAMBDA s, i, e, n : <<>>)
    IN  [properties |-> SetProps(SetProps(<<>>, yaml), inline),
         content |-> ReSub(c1, 0, M_BlankLines, LAMBDA s, i, e, n : <<NL, NL>>)]

----------------------------------------------------------------------------
(* create_org_header                                                       *)

UpperText(s) == [k \in 1..Len(s) |-> UpperOf(s[k])]

\* the property lines other than ID and TITLE
RECURSIVE PropertyLines(_)
PropertyLines(props) ==
    IF props = <<>> THEN <<>>
    ELSE (IF UpperText(props[1][1]) \in {<<"I", "D">>, <<"T", "I", "T", "L", "E">>} THEN <<>>
          ELSE <<":">> \o UpperText(props[1][1]) \o <<":", Space>> \o props[1][2] \o <<NL>>)
         \o PropertyLines(Tail(props))

\* the #+FILETAGS line of a scalar tags property
FileTagsLine(props) ==
    IF ~HasProp(props, <<"t", "a", "g", "s">>) THEN <<>>
    ELSE LET tags == GetProp(props, <<"t", "a", "g", "s">>)
         IN  <<"#", "+", "F", "I", "L", "E", "T", "A", "G", "S", ":", Space>>
                 \o (IF At(tags, 1, <<":">>) THEN tags ELSE <<":">> \o tags \o <<":">>)
                 \o <<NL>>

\* the header with the identifier page_id
OrgHeader(page_id, title, props) ==
    <<":", "P", "R", "O", "P", "E", "R", "T", "I", "E", "S", ":", NL, ":", "I", "D", ":", Space>> \o <<page_id>> \o <<NL>>
        \o PropertyLines(props)
        \o <<":", "E", "N", "D", ":", NL, "#", "+", "T", "I", "T", "L", "E", ":", Space>> \o title \o <<NL>>
        \o FileTagsLine(props) \o <<NL>>

\* page_id = self.page_ids.get(title, self.generate_uuid()): the uuid is
\* generated whether or not the title has an identifier
create_org_header(title, props, reg) ==
    [header |-> OrgHeader(IF title \in DOMAIN reg.page_ids THEN reg.page_ids[title]
                          ELSE Uuid(reg.uuids + 1), title, props),
     reg |-> [reg EXCEPT !.uuids = reg.uuids + 1]]

----------------------------------------------------------------------------
(* update_asset_paths and the two last rewritings of convert_file.         *)

AssetsDir == <<"a", "s", "s", "e", "t", "s", "/">>

\* the pairs <<j, k>> at which open (.*?) ']' '(' dir 'assets/' ([^)]+?) ')'
\* can match from i: ']' at j, ')' at k
AssetEnds(s, i, open, dir) ==
    IF ~At(s, i, open) THEN {}
    ELSE {jk \in ((i + Len(open))..Len(s)) \X (1..Len(s)) :
            /\ At(s, jk[1], <<"]", "(">> \o dir \o AssetsDir)
            /\ \A p \in (i + Len(open))..(jk[1] - 1) : s[p] # NL
            /\ jk[2] = IndexFrom(s, jk[1] + 2 + Len(dir) + Len(AssetsDir), ")")
            /\ jk[2] >= jk[1] + 3 + Len(dir) + Len(AssetsDir)}

AssetEnd(s, i, open, dir) ==
    LET ends == AssetEnds(s, i, open, dir)
    IN  CHOOSE jk \in ends : \A x \in ends : jk[1] <= x[1]

\* re.sub(open\[(.*?)\]\(dir assets/([^)]+?)\), open[\1](../assets/\2), s)
AssetSub(s, open, dir) ==
    ReSub(s, 0,
          LAMBDA t, i : IF AssetEnds(t, i, open, dir) = {} THEN 0
                        ELSE AssetEnd(t, i, open, dir)[2],
          LAMBDA t, i, e, n :
              LET j == AssetEnd(t, i, open, dir)[1]
              IN  Slice(t, i, j - 1) \o <<"]", "(", ".", ".", "/", "a", "s", "s", "e", "t", "s", "/">>
                      \o Slice(t, j + 2 + Len(dir) + Len(AssetsDir), e))

update_asset_paths(content) ==
    LET c1 == AssetSub(content, <<"!", "[">>, <<".", ".", "/">>)
        c2 == AssetSub(c1, <<"!", "[">>, <<>>)
        c3 == AssetSub(c2, <<"[">>, <<".", ".", "/">>)
    IN  AssetSub(c3, <<"[">>, <<>>)

\* r'(^(\*)+[ ])\|(.*)' with re.MULTILINE
M_TableCaption(s, i) ==
    IF ~(IsLineStart(s, i) /\ s[i] = "*") THEN 0
    ELSE LET p == i + RunLen(s, i, {"*"})
         IN  IF At(s, p, <<Space, "|">>) THEN LineEnd(s, p + 1) ELSE 0

\* r'\1table \n|\3'
R_TableCaption(s, i, e, n) ==
    LET p == i + RunLen(s, i, {"*"})
    IN  Slice(s, i, p) \o <<"t", "a", "b", "l", "e", Space, NL, "|">> \o Slice(s, p + 2, e)

\* r'(\d\d\d\d)_(\d\d)_(\d\d)'
M_Date(s, i) ==
    IF /\ i + 9 <= Len(s)
       /\ \A k \in {0, 1, 2, 3, 5, 6, 8, 9} : s[i + k] \in Digits
       /\ s[i + 4] = "_"
       /\ s[i + 7] = "_"
    THEN i + 9 ELSE 0

\* r'\1-\2-\3'
R_Date(s, i, e, n) ==
    Slice(s, i, i + 3) \o <<"-">> \o Slice(s, i + 5, i + 6) \o <<"-">> \o Slice(s, i + 8, i + 9)

DashDates(s) == ReSub(s, 0, M_Date, R_Date)

----------------------------------------------------------------------------
(* scan_existing_pages and collect_missing_pages: what they read in a      *)
(* document.                                                               *)

\* re.search(r'^title:\s*(.+)$', content, re.MULTILINE | re.IGNORECASE):
\* where group 1 starts in the first match, 0 when there is none
TitleLine(content) ==
    LET hits == {i \in 1..Len(content) :
                    /\ IsLineStart(content, i)
                    /\ AtNoCase(content, i, <<"t", "i", "t", "l", "e", ":">>)
                    /\ GroupAfterWs(content, i + 6, 0) > 0}
    IN  IF hits = {} THEN 0 ELSE GroupAfterWs(content, MinOf(hits) + 6, 0)

\* re.search(r'^#\s+(.+)$', content, re.MULTILINE): where group 1 starts
HeadingLine(content) ==
    LET hits == {i \in 1..Len(content) :
                    /\ IsLineStart(content, i)
                    /\ content[i] = "#"
                    /\ GroupAfterWs(content, i + 1, 1) > 0}
    IN  IF hits = {} THEN 0 ELSE GroupAfterWs(content, MinOf(hits) + 1, 1)

\* the title scan_existing_pages records for a readable document
ScanTitle(content, page_name) ==
    LET t == TitleLine(content)
        h == HeadingLine(content)
    IN  IF t > 0 THEN Strip(Slice(content, t, LineEnd(content, t)))
        ELSE IF h > 0 THEN Strip(Slice(content, h, LineEnd(content, h)))
        ELSE page_name

\* re.findall(pattern, s) for a pattern with one group: the texts of group 1,
\* G(s, i) being <<first, last>> of group 1 in the match at i
FindAll(s, M(_, _), G(_, _)) ==
    LET ms == ReMatches(s, M)
    IN  {Slice(s, G(s, ms[k][1])[1], G(s, ms[k][1])[2]) : k \in 1..Len(ms)}

G_Wiki(s, i) == <<i + 2, WikiEnd(s, i) - 2>>

\* link_patterns[1]: r'\[\[([^\]|]+?)\|[^\]]*?\]\]'
M_AliasLink(s, i) ==
    IF ~At(s, i, <<"[", "[">>) THEN 0
    ELSE LET j == IndexOfAny(s, i + 2, {"]", "|"})
             k == IndexFrom(s, j + 1, "]")
         IN  IF j >= i + 3 /\ j <= Len(s) /\ s[j] = "|" /\ At(s, k, <<"]", "]">>)
             THEN k + 1 ELSE 0

G_AliasLink(s, i) == <<i + 2, IndexOfAny(s, i + 2, {"]", "|"}) - 1>>

\* link_patterns[2]: r'\[\[([^\]]+?)\]\]\([^)]*?\)'
M_LinkInfo(s, i) ==
    LET e == WikiEnd(s, i)
        k == IndexFrom(s, e + 2, ")")
    IN  IF e > 0 /\ At(s, e + 1, <<"(">>) /\ k <= Len(s) THEN k ELSE 0

\* where the inner form of r'{{embed\s+<inner>}}' starts for a match tried
\* at i, 0 when '{{embed' and whitespace do not stand there
EmbedInner(s, i) ==
    IF AtNoCase(s, i, <<"{", "{", "e", "m", "b", "e", "d">>) /\ RunLen(s, i + 7, WS) >= 1
    THEN i + 7 + RunLen(s, i + 7, WS) ELSE 0

\* link_patterns[3]: r'{{embed\s+\[\[([^\]]+?)\]\]}}'
M_EmbedWiki(s, i) ==
    LET p == EmbedInner(s, i)
        e == IF p = 0 THEN 0 ELSE WikiEnd(s, p)
    IN  IF e > 0 /\ At(s, e + 1, <<"}", "}">>) THEN e + 2 ELSE 0

G_EmbedWiki(s, i) == <<EmbedInner(s, i) + 2, WikiEnd(s, EmbedInner(s, i)) - 2>>

\* link_patterns[4]: r'{{embed\s+\(\(([^)]+?)\)\)}}'
M_EmbedBlock(s, i) ==
    LET p == EmbedInner(s, i)
        e == IF p = 0 THEN 0 ELSE M_BlockRef(s, p)
    IN  IF e > 0 /\ At(s, e + 1, <<"}", "}">>) THEN e + 2 ELSE 0

G_EmbedBlock(s, i) == <<EmbedInner(s, i) + 2, M_BlockRef(s, EmbedInner(s, i)) - 2>>

\* edge_case_patterns[0]: r'(?:^|\s)\[\[([^\]]+?)\]\](?:\s|$)'; where the
\* link of a match tried at i starts
BoundedStart(s, i) ==
    IF IsLineStart(s, i) /\ s[i] = "[" THEN i
    ELSE IF s[i] \in WS THEN i + 1 ELSE 0

M_WikiBounded(s, i) ==
    LET b == BoundedStart(s, i)
        e == IF b = 0 THEN 0 ELSE WikiEnd(s, b)
    IN  IF e = 0 THEN 0
        ELSE IF e + 1 <= Len(s) /\ s[e + 1] \in WS THEN e + 1
        ELSE IF e = Len(s) THEN e
        ELSE 0

G_WikiBounded(s, i) == <<BoundedStart(s, i) + 2, WikiEnd(s, BoundedStart(s, i)) - 2>>

\* edge_case_patterns[1]: r'(?<=\s)\[\[([^\]]+?)\]\](?=\s)'
M_WikiSpaced(s, i) ==
    LET e == WikiEnd(s, i)
    IN  IF e > 0 /\ i > 1 /\ s[i - 1] \in WS /\ e + 1 <= Len(s) /\ s[e + 1] \in WS
        THEN e ELSE 0

\* edge_case_patterns[2]: r'(?<=^)\[\[([^\]]+?)\]\]'
M_WikiLineStart(s, i) == IF IsLineStart(s, i) THEN WikiEnd(s, i) ELSE 0

\* edge_case_patterns[3]: r'\[\[([^\]]+?)\]\](?=$)'
M_WikiLineEnd(s, i) ==
    LET e == WikiEnd(s, i)
    IN  IF e > 0 /\ IsLineEnd(s, e + 1) THEN e ELSE 0

\* edge_case_patterns[4]: r'(?<=\n)\[\[([^\]]+?)\]\]'
M_WikiAfterBreak(s, i) == IF i > 1 /\ s[i - 1] = NL THEN WikiEnd(s, i) ELSE 0

\* edge_case_patterns[5]: r'\[\[([^\]]+?)\]\](?=\n)'
M_WikiBeforeBreak(s, i) ==
    LET e == WikiEnd(s, i)
    IN  IF e > 0 /\ e + 1 <= Len(s) /\ s[e + 1] = NL THEN e ELSE 0

\* the texts the eleven patterns of collect_missing_pages find in a document
LinkMatches(content) ==
    FindAll(content, M_Wiki, G_Wiki)
        \cup FindAll(content, M_AliasLink, G_AliasLink)
        \cup FindAll(content, M_LinkInfo, G_Wiki)
        \cup FindAll(content, M_EmbedWiki, G_EmbedWiki)
        \cup FindAll(content, M_EmbedBlock, G_EmbedBlock)
        \cup FindAll(content, M_WikiBounded, G_WikiBounded)
        \cup FindAll(content, M_WikiSpaced, G_Wiki)
        \cup FindAll(content, M_WikiLineStart, G_Wiki)
        \cup FindAll(content, M_WikiLineEnd, G_Wiki)
        \cup FindAll(content, M_WikiAfterBreak, G_Wiki)
        \cup FindAll(content, M_WikiBeforeBreak, G_Wiki)

\* the names one document adds to missing_pages: the normalized matches that
\* are not empty and not in existing_pages
MissingNames(content, existing) ==
    {normalize_page_name(m) : m \in LinkMatches(content)} \ (existing \cup {<<>>})

----------------------------------------------------------------------------
(* create_missing_pages and convert_file: the documents they write.        *)

\* the sentence that ends a stub, with the time of its creation
StubNote == "STUB_NOTE"

\* stub_content of create_missing_pages
StubContent(page_id, page_name) ==
    <<":", "P", "R", "O", "P", "E", "R", "T", "I", "E", "S", ":", NL, ":", "I", "D", ":", Space>> \o <<page_id>> \o <<NL, ":", "E", "N", "D", ":", NL, "#", "+", "T", "I", "T", "L", "E", ":", Space>> \o page_name
        \o <<NL, "#", "+", "F", "I", "L", "E", "T", "A", "G", "S", ":", Space, ":", "s", "t", "u", "b", ":", NL, NL>> \o <<StubNote, NL>>

\* convert_tasks returns its argument
convert_tasks(task_content) == task_content

\* properties.get('title') or self.file_to_title.get(stem, stem)
DocumentTitle(props, titles, stem) ==
    IF GetProp(props, <<"t", "i", "t", "l", "e">>) # <<>> THEN GetProp(props, <<"t", "i", "t", "l", "e">>)
    ELSE IF stem \in DOMAIN titles THEN titles[stem]
    ELSE stem

\* body, with v evaluated first: TLC evaluates an argument where it is first
\* used, and a chain of rewritings evaluated from its last step inwards
\* nests too deep
After(v, body) == IF Cardinality({v}) = 1 THEN body ELSE <<>>

\* The rewriting steps of convert_file between extract_properties and
\* create_org_header, last to first; r is the text and the registry so far.
WithAssetPaths(r) ==
    After(r, [content |-> update_asset_paths(r.content), reg |-> r.reg])

WithBlockEmbeddings(r) ==
    After(r, WithAssetPaths(convert_block_embeddings(r.content, r.reg)))

WithBlockReferences(r) ==
    After(r, WithBlockEmbeddings(convert_block_references(r.content, r.reg)))

WithDoubleLinks(content, reg) ==
    After(content, WithBlockReferences(convert_double_links(content, reg)))

\* the steps in the order the code applies them
ConvertContent(content, reg) ==
    WithDoubleLinks(
        convert_hierarchical_structure(convert_tasks(convert_markdown_to_org(content))),
        reg)

\* org_content of convert_file once header and content are joined: the table
\* and the date rewriting
FinishContent(org_content) ==
    After(org_content,
          DashDates(ReSub(org_content, 0, M_TableCaption, R_TableCaption)))

\* the header put before the converted content r
WithHeader(title, props, r) ==
    After(r, LET h == create_org_header(title, props, r.reg)
             IN  [org_content |-> FinishContent(h.header \o Strip(r.content)),
                  reg |-> h.reg])

\* convert_file after extract_properties returned ep
ConvertExtracted(ep, stem, titles, reg) ==
    After(ep, WithHeader(DocumentTitle(ep.properties, titles, stem), ep.properties,
                         ConvertContent(ep.content, reg)))

\* org_content of convert_file for a document that could be read, and the
\* registry after it
ConvertDocument(text, stem, titles, reg) ==
    ConvertExtracted(extract_properties(text), stem, titles, reg)

----------------------------------------------------------------------------
(* SpecNorm: normalize_page_name applied repeatedly to a name.             *)

MaxNameLen == 4
NameAlphabet == {"a", Space, "*", "/", ":", "_", "~", "|"}

InitNorm ==
    /\ arg \in Texts(NameAlphabet, MaxNameLen)
    /\ res = <<>>
    /\ NoRun

\* one more application of normalize_page_name to the latest value
Normalize ==
    /\ Len(res) < 3
    /\ res' = Append(res, normalize_page_name(IF res = <<>> THEN arg ELSE res[Len(res)]))
    /\ UNCHANGED <<arg, runVars>>

NextNorm == Normalize

SpecNorm == InitNorm /\ [][NextNorm]_vars

\* C6: normalize_page_name is idempotent: normalizing the result of a
\* normalization returns it unchanged.
C6_NormalizeIdempotent ==
    \A k \in 2..Len(res) : res[k] = res[1]

\* a name that the first normalization changes has been normalized twice
C6_Witness ==
    /\ Len(res) >= 2
    /\ res[1] # arg
    /\ res[1] # <<>>
    /\ \E k \in 1..Len(arg) : arg[k] = "/"

----------------------------------------------------------------------------
(* SpecHier: convert_hierarchical_structure applied to a text of one or    *)
(* two lines.                                                              *)

MaxTabs == 3
MaxSpaces == 6

HierIndents ==
    UNION {{Rep(Tab, t) \o Rep(Space, n), Rep(Space, n) \o Rep(Tab, t)} :
              t \in 0..MaxTabs, n \in 0..MaxSpaces}

HierBullets == {<<"-", Space>>, <<"-">>, <<"-", Tab>>, <<"-", Space, Space>>}

HierHeads ==
    {TaskKeywords[k] : k \in 1..Len(TaskKeywords)}
        \cup {<<"t", "o", "d", "o">>, <<"[", "x", "]">>, <<"[", "X", "]">>,
              <<"[", Space, "]">>, <<"[", "y", "]">>, <<>>}

HierSeps == {<<>>, <<Space>>}

HierTails == {<<>>, <<"a">>, NOW \o <<Space, "b">>}

HierSecondLines == {<<>>, <<NL, "b">>, <<NL, "-", Space>> \o DONE \o <<Space, "c">>}

HierInputs ==
    {i \o b \o h \o p \o t \o l :
        i \in HierIndents, b \in HierBullets, h \in HierHeads,
        p \in HierSeps, t \in HierTails, l \in HierSecondLines}

InitHier ==
    /\ arg \in HierInputs
    /\ res = <<>>
    /\ NoRun

ConvertHier ==
    /\ res = <<>>
    /\ res' = <<convert_hierarchical_structure(arg)>>
    /\ UNCHANGED <<arg, runVars>>

NextHier == ConvertHier

SpecHier == InitHier /\ [][NextHier]_vars

\* a list item: optional leading whitespace, a dash, whitespace, text
C7_IsItem(line) ==
    \E w \in 0..Len(line) :
        /\ \A k \in 1..w : line[k] \in WS
        /\ Len(line) >= w + 3
        /\ line[w + 1] = "-"
        /\ line[w + 2] \in WS

\* the indentation of a line: 2 for each leading tab, 1 for each leading space
C7_Indent(line) ==
    LET w == RunLen(line, 1, WS)
    IN  2 * Cardinality({k \in 1..w : line[k] = Tab})
            + Cardinality({k \in 1..w : line[k] = Space})

C7_Stars(line) == RunLen(line, 1, {"*"})

\* C7: every list item line becomes a heading with min(6, floor(indent/2) + 1)
\* leading stars (between 1 and 6), indent counting a tab as 2 and a space as
\* 1; every other line is left unchanged.
C7_HeadingDepth ==
    res # <<>> =>
        LET lines == SplitLines(arg)
            outs == SplitLines(res[1])
        IN  /\ Len(outs) = Len(lines)
            /\ \A k \in 1..Len(lines) :
                  IF C7_IsItem(lines[k])
                  THEN /\ C7_Stars(outs[k]) = Min(6, (C7_Indent(lines[k]) \div 2) + 1)
                       /\ C7_Stars(outs[k]) \in 1..6
                       /\ outs[k][C7_Stars(outs[k]) + 1] = Space
                       /\ (C7_Indent(lines[k]) = 0 => C7_Stars(outs[k]) = 1)
                       /\ (C7_Indent(lines[k]) = 4 => C7_Stars(outs[k]) = 3)
                  ELSE outs[k] = lines[k]

\* an item indented by 12 or more has been converted to a heading of depth 6,
\* next to a line that is no item
C7_Witness ==
    /\ res # <<>>
    /\ LET lines == SplitLines(arg)
       IN  /\ Len(lines) = 2
           /\ C7_IsItem(lines[1])
           /\ C7_Indent(lines[1]) >= 12
           /\ ~C7_IsItem(lines[2])
           /\ C7_Stars(SplitLines(res[1])[1]) = 6

\* the text of a list item: what follows the dash and its whitespace
C8_Text(line) == From(line, TextAfterWs(line, RunLen(line, 1, WS) + 2))

\* text opens with marker m, whitespace and something more
C8_Opens(text, m) ==
    /\ At(text, 1, m)
    /\ Len(text) >= Len(m) + 2
    /\ text[Len(m) + 1] \in WS

\* what follows marker m and its whitespace
C8_Rest(text, m) == From(text, TextAfterWs(text, Len(m) + 1))

\* the heading text the claim gives a list item's text
C8_Expected(text) ==
    IF \E c \in {"x", "X"} : C8_Opens(text, <<"[", c, "]">>)
    THEN DONE \o <<Space>> \o C8_Rest(text, <<"[", "x", "]">>)
    ELSE IF C8_Opens(text, <<"[", Space, "]">>)
    THEN TODO \o <<Space>> \o C8_Rest(text, <<"[", Space, "]">>)
    ELSE IF \E k \in {NOW, OVERDUE} : C8_Opens(text, k)
    THEN LET k == CHOOSE k \in {NOW, OVERDUE} : C8_Opens(text, k)
         IN  TODO \o <<Space>> \o C8_Rest(text, k)
    ELSE IF \E k \in {TODO, DONE, LATER, DOING, WAITING, CANCELLED} : C8_Opens(text, k)
    THEN LET k == CHOOSE k \in {TODO, DONE, LATER, DOING, WAITING, CANCELLED} :
                      C8_Opens(text, k)
         IN  k \o <<Space>> \o C8_Rest(text, k)
    ELSE text

\* C8: the state of a list item's heading is DONE for a checked box, TODO for
\* an empty one; else the leading task keyword itself, NOW and OVERDUE giving
\* TODO; else the heading carries the text with no state keyword.
C8_TaskState ==
    res # <<>> =>
        LET lines == SplitLines(arg)
            outs == SplitLines(res[1])
        IN  \A k \in 1..Len(lines) :
                C7_IsItem(lines[k]) =>
                    From(outs[k], C7_Stars(outs[k]) + 2) = C8_Expected(C8_Text(lines[k]))

\* a checked box before a keyword, and a NOW item, have been converted
C8_Witness ==
    /\ res # <<>>
    /\ \E k \in 1..Len(SplitLines(arg)) :
          LET line == SplitLines(arg)[k]
          IN  /\ C7_IsItem(line)
              /\ C8_Opens(C8_Text(line), <<"[", "x", "]">>)
              /\ At(C8_Rest(C8_Text(line), <<"[", "x", "]">>), 1, NOW)
    /\ At(From(SplitLines(res[1])[1], C7_Stars(SplitLines(res[1])[1]) + 2), 1, DONE)

----------------------------------------------------------------------------
(* SpecMd: convert_markdown_to_org applied to a text.                      *)

MaxMdLen == 3
MaxLinkPart == 2

\* the pieces free texts are made of
MdPieces ==
    {<<"a">>, <<Space>>, <<NL>>, <<"*">>, <<"*", "*">>, <<"_">>, <<Backtick>>,
     <<"~", "~">>, <<"[">>, <<"]", "(">>, <<")">>, <<"#", Space>>}

MdFreeInputs == {Concat(ps) : ps \in Texts(MdPieces, MaxMdLen)}

\* a markdown link [label](url), alone or after an image mark
MdLinkInputs ==
    {pre \o <<"[">> \o l \o <<"]", "(">> \o u \o <<")">> :
        pre \in {<<>>, <<"!">>},
        l \in Texts({"a", NL, "*"}, MaxLinkPart),
        u \in Texts({"a", NL, "/"}, MaxLinkPart)}

\* emphasis inside emphasis: **x *y* z**, __x _y_ z__, ...
MdNestInputs ==
    {<<o, o>> \o x \o <<n>> \o y \o <<n>> \o z \o <<o, o>> :
        o \in {"*", "_"}, n \in {"*", "_", Backtick},
        x \in {<<"a", Space>>, <<>>}, y \in {<<"b">>, <<"b", Space, "c">>},
        z \in {<<Space, "d">>, <<>>}}

\* text already in the target dialect, alone and inside emphasis
MdOrgInputs ==
    {pre \o body \o post :
        pre \in {<<>>, <<"a", Space>>, <<"*", "*">>, <<"_">>},
        body \in {<<"[", "[", "i", "d", ":", "a", "]", "[", "b", "]", "]">>, <<"*", Space, "a">>, <<"*", "*", Space, "[", "[", "i", "d", ":", "a", "]", "[", "b", "]", "]">>},
        post \in {<<>>, <<Space, "a">>, <<"*", "*">>, <<"_">>, <<NL, "#", Space, "a">>}}

\* what stands between the backticks of a code span
MdCodeBodies ==
    {<<"*", "*", "a", "*", "*">>, <<"_", "_", "a", "_", "_">>, <<"*", "a", "*">>, <<"_", "a", "_">>, <<"~", "~", "a", "~", "~">>, <<"[", "a", "]", "(", "b", ")">>,
     <<"a", Space, "b">>, <<"a", "*", "b">>}

\* a code span, alone or inside a line
MdCodeInputs ==
    {pre \o <<Backtick>> \o body \o <<Backtick>> \o post :
        pre \in {<<>>, <<"x", Space>>},
        body \in MdCodeBodies,
        post \in {<<>>, <<Space, "y">>}}

MdInputs ==
    MdFreeInputs \cup MdLinkInputs \cup MdNestInputs \cup MdOrgInputs
        \cup MdCodeInputs

InitMd ==
    /\ arg \in MdInputs
    /\ res = <<>>
    /\ NoRun

ConvertMd ==
    /\ res = <<>>
    /\ res' = <<convert_markdown_to_org(arg)>>
    /\ UNCHANGED <<arg, runVars>>

NextMd == ConvertMd

SpecMd == InitMd /\ [][NextMd]_vars

\* C10: the output of convert_markdown_to_org holds no temporary token of
\* any family (code, bold, italic, strike, link); bold text holding an italic
\* run comes out as '*' around '/' markers.
C10_NoTokenLeft ==
    res # <<>> =>
        /\ \A k \in 1..Len(res[1]) : res[1][k] \notin TempTokens
        /\ (arg = <<"*", "*", "a", Space, "*", "b", "*", Space, "d", "*", "*">> => res[1] = <<"*", "a", Space, "/", "b", "/", Space, "d", "*">>)

----------------------------------------------------------------------------
(* Spec: a run of main on an input directory.                              *)

MaxFiles == 2
MaxWriteFailures == 1
MaxAssets == 1

\* the places a document of the input directory can stand at
Slots == {<<"pages", <<"A">>>>, <<"pages", <<"B">>>>, <<"journals", <<"A">>>>}

\* the texts a document can hold
DocTexts ==
    {<<"-", Space, "[", "[", "B", "]", "]">>, <<"[", "[", "*", "a", "*", "]", "]">>, <<"(", "(", "t", ")", ")", Space, "(", "(", "t", ")", ")">>, <<"#", Space, "T", NL, "[", "[", "A", "]", "]">>}

\* a document that can be read, or one whose reading raises
Documents ==
    {[readable |-> TRUE, content |-> t] : t \in DocTexts}
        \cup {[readable |-> FALSE, content |-> <<>>]}

\* the input directories: some folders, and documents in them
InputDirs ==
    {[exists |-> TRUE, folders |-> F, files |-> fs] :
        F \in SUBSET {"pages", "journals"},
        fs \in UNION {[S -> Documents] :
                        S \in {T \in SUBSET Slots : Cardinality(T) <= MaxFiles}}}

Init ==
    /\ arg = <<>>
    /\ res = <<>>
    /\ Constructed
    /\ logseq_dir \in {d \in InputDirs : \A f \in DOMAIN d.files : f[1] \in d.folders}
                        \cup {[exists |-> FALSE, folders |-> {}, files |-> <<>>]}

\* d[key] = value
SetItem(d, key, value) ==
    [k \in DOMAIN d \cup {key} |-> IF k = key THEN value ELSE d[k]]

AllFiles == DOMAIN logseq_dir.files

\* for folder in ['pages', 'journals']: for file_path in folder_path.glob('*.md'):
\* the documents the loop can visit next, glob yielding those of one folder
\* in any order
NextFiles ==
    IF \E f \in todo : f[1] = "pages" THEN {f \in todo : f[1] = "pages"} ELSE todo

\* the registry a conversion reads and writes
Registry ==
    [page_ids |-> page_ids, block_ids |-> block_ids,
     missing_pages |-> missing_pages, uuids |-> uuids]

\* output_folder / (final_stem + '.org') for the document f
OutputFile(f) == <<f[1], DashDates(f[2])>>

\* the pass convert_all runs after pass p
PassAfter_ConvertFirst(p) ==
    CASE p = "scan" -> "collect"
      [] p = "collect" -> "convert"
      [] p = "convert" -> "create"
      [] p = "create" -> "copy"

PassAfter(p) ==
    CASE p = "scan" -> "collect"
      [] p = "collect" -> "create"
      [] p = "create" -> "convert"
      [] p = "convert" -> "copy"

\* what the loop of pass p visits
PassItems(p) ==
    IF p = "create" THEN missing_pages
    ELSE IF p = "copy" THEN {}
    ELSE AllFiles

\* the except branch of convert_file
ConvertFailed_Counted(st, f) ==
    [st EXCEPT !.errors = Append(@, <<"convert", f>>),
               !.files_processed = @ + 1]

ConvertFailed(st, f) == [st EXCEPT !.errors = Append(@, <<"convert", f>>)]

\* main up to the call of convert_all
Main ==
    /\ pc = "main"
    /\ \/ /\ ~logseq_dir.exists
          /\ pc' = "done"
          /\ exit_code' = <<1>>
       \/ /\ logseq_dir.exists
          /\ logseq_dir.folders = {}
          /\ \E response \in {"y", "n"} :
                IF response = "y"
                THEN pc' = "scan" /\ exit_code' = exit_code
                ELSE pc' = "done" /\ exit_code' = <<1>>
       \/ /\ logseq_dir.exists
          /\ logseq_dir.folders # {}
          /\ pc' = "scan"
          /\ exit_code' = exit_code
    /\ todo' = IF pc' = "scan" THEN PassItems("scan") ELSE {}
    /\ UNCHANGED <<funVars, logseq_dir, output_dir, page_ids, block_ids,
                   existing_pages, missing_pages, file_to_title, stats, uuids,
                   write_failures, written>>

\* one turn of the loop of scan_existing_pages
ScanFile(f) ==
    /\ pc = "scan"
    /\ f \in NextFiles
    /\ LET page_name == f[2]
           doc == logseq_dir.files[f]
       IN  /\ existing_pages' = existing_pages \cup {page_name}
           /\ page_ids' = SetItem(page_ids, page_name, Uuid(uuids + 1))
           /\ uuids' = uuids + 1
           /\ file_to_title' =
                  SetItem(file_to_title, page_name,
                          IF doc.readable THEN ScanTitle(doc.content, page_name)
                          ELSE page_name)
           /\ stats' = IF doc.readable THEN stats
                       ELSE [stats EXCEPT !.warnings = Append(@, <<"title", f>>)]
    /\ todo' = todo \ {f}
    /\ UNCHANGED <<funVars, logseq_dir, output_dir, block_ids, missing_pages,
                   pc, exit_code, write_failures, written>>

\* one turn of the loop of collect_missing_pages
CollectFile(f) ==
    /\ pc = "collect"
    /\ f \in NextFiles
    /\ LET doc == logseq_dir.files[f]
       IN  IF doc.readable
           THEN /\ missing_pages' =
                       missing_pages \cup MissingNames(doc.content, existing_pages)
                /\ stats' = stats
           ELSE /\ missing_pages' = missing_pages
                /\ stats' = [stats EXCEPT !.errors = Append(@, <<"read", f>>)]
    /\ todo' = todo \ {f}
    /\ UNCHANGED <<funVars, logseq_dir, output_dir, page_ids, block_ids,
                   existing_pages, file_to_title, uuids, pc, exit_code,
                   write_failures, written>>

\* create_missing_pages taking the names it materializes for known names
CreateStub_Known(page_name) ==
    /\ pc = "create"
    /\ page_name \in todo
    /\ uuids' = uuids + 1
    /\ page_ids' = SetItem(page_ids, page_name, Uuid(uuids + 1))
    /\ existing_pages' = existing_pages \cup {page_name}
    /\ output_dir' =
           [output_dir EXCEPT !.files =
               SetItem(@, <<"pages", page_name>>,
                       StubContent(Uuid(uuids + 1), page_name))]
    /\ written' = Append(written, <<"pages", page_name>>)
    /\ stats' = [stats EXCEPT !.missing_pages_created = @ + 1]
    /\ todo' = todo \ {page_name}
    /\ UNCHANGED <<funVars, logseq_dir, block_ids, missing_pages,
                   file_to_title, pc, exit_code, write_failures>>

\* one turn of the loop of create_missing_pages, which visits the names of
\* missing_pages in any order
CreateStub(page_name) ==
    /\ pc = "create"
    /\ page_name \in todo
    /\ uuids' = uuids + 1
    /\ page_ids' = SetItem(page_ids, page_name, Uuid(uuids + 1))
    /\ \/ /\ output_dir' =
                 [output_dir EXCEPT !.files =
                     SetItem(@, <<"pages", page_name>>,
                             StubContent(Uuid(uuids + 1), page_name))]
          /\ written' = Append(written, <<"pages", page_name>>)
          /\ stats' = [stats EXCEPT !.missing_pages_created = @ + 1]
          /\ write_failures' = write_failures
       \/ /\ write_failures < MaxWriteFailures
          /\ write_failures' = write_failures + 1
          /\ stats' = [stats EXCEPT !.errors = Append(@, <<"stub", page_name>>)]
          /\ UNCHANGED <<output_dir, written>>
    /\ todo' = todo \ {page_name}
    /\ UNCHANGED <<funVars, logseq_dir, block_ids, existing_pages, missing_pages,
                   file_to_title, pc, exit_code>>

\* convert_file from the write of the output file on, r being the converted
\* document and the registry after the conversion
WriteConverted(f, r) ==
    /\ page_ids' = r.reg.page_ids
    /\ block_ids' = r.reg.block_ids
    /\ missing_pages' = r.reg.missing_pages
    /\ uuids' = r.reg.uuids
    /\ \/ /\ output_dir' =
                 [output_dir EXCEPT !.files = SetItem(@, OutputFile(f), r.org_content)]
          /\ written' = Append(written, OutputFile(f))
          /\ stats' = [stats EXCEPT !.files_processed = @ + 1]
          /\ write_failures' = write_failures
       \/ /\ write_failures < MaxWriteFailures
          /\ write_failures' = write_failures + 1
          /\ stats' = ConvertFailed(stats, f)
          /\ UNCHANGED <<output_dir, written>>

\* convert_file on the next document of the loop of convert_all
ConvertFile(f) ==
    /\ pc = "convert"
    /\ f \in NextFiles
    /\ IF ~logseq_dir.files[f].readable
       THEN /\ stats' = ConvertFailed(stats, f)
            /\ UNCHANGED <<output_dir, page_ids, block_ids, missing_pages,
                           uuids, write_failures, written>>
       ELSE WriteConverted(f, ConvertDocument(logseq_dir.files[f].content, f[2],
                                              file_to_title, Registry))
    /\ todo' = todo \ {f}
    /\ UNCHANGED <<funVars, logseq_dir, existing_pages, file_to_title, pc,
                   exit_code>>

\* convert_all going from a pass whose loop has ended to the next pass
EndPass ==
    /\ pc \in {"scan", "collect", "create", "convert"}
    /\ todo = {}
    /\ pc' = PassAfter(pc)
    /\ todo' = PassItems(pc')
    /\ UNCHANGED <<funVars, logseq_dir, output_dir, page_ids, block_ids,
                   existing_pages, missing_pages, file_to_title, stats, uuids,
                   exit_code, write_failures, written>>

\* copy_assets, on an input directory with no assets folder, or with one
\* that holds n files
CopyAssets ==
    /\ pc = "copy"
    /\ \/ UNCHANGED <<output_dir, stats, write_failures>>
       \/ \E n \in 0..MaxAssets :
             /\ output_dir' = [output_dir EXCEPT !.assets = n]
             /\ stats' = [stats EXCEPT !.assets_copied = n]
             /\ write_failures' = write_failures
       \/ /\ write_failures < MaxWriteFailures
          /\ write_failures' = write_failures + 1
          /\ stats' = [stats EXCEPT !.errors = Append(@, <<"assets", <<>>>>)]
          /\ output_dir' = output_dir
    /\ pc' = "summary"
    /\ UNCHANGED <<funVars, logseq_dir, page_ids, block_ids, existing_pages,
                   missing_pages, file_to_title, uuids, todo, exit_code, written>>

\* print_summary, and main returning 0
Finish ==
    /\ pc = "summary"
    /\ pc' = "done"
    /\ exit_code' = <<0>>
    /\ UNCHANGED <<funVars, logseq_dir, output_dir, page_ids, block_ids,
                   existing_pages, missing_pages, file_to_title, stats, uuids,
                   todo, write_failures, written>>

Next ==
    \/ Main
    \/ \E f \in AllFiles : ScanFile(f)
    \/ \E f \in AllFiles : CollectFile(f)
    \/ \E n \in missing_pages : CreateStub(n)
    \/ \E f \in AllFiles : ConvertFile(f)
    \/ EndPass
    \/ CopyAssets
    \/ Finish

Spec == Init /\ [][Next]_vars

\* the symbols of a sequence
Range(s) == {s[k] : k \in 1..Len(s)}

\* whether the text p stands somewhere in s
Contains(s, p) == \E i \in 1..Len(s) : At(s, i, p)

\* C1: within one run, once page_ids maps a document name, or block_ids a
\* block token, to an identifier, no later step changes that mapping.
C1_IdentifiersStable ==
    [][/\ \A n \in DOMAIN page_ids :
             n \in DOMAIN page_ids' /\ page_ids'[n] = page_ids[n]
       /\ \A b \in DOMAIN block_ids :
             b \in DOMAIN block_ids' /\ block_ids'[b] = block_ids[b]]_vars

\* C2: after a run without write failures, every name the run put in
\* missing_pages, the names convert_double_links met first during the
\* conversion included, has a document of that name in the output tree.
C2_ReferencedNamesHaveDocuments ==
    (pc = "done" /\ exit_code = <<0>> /\ write_failures = 0) =>
        \A n \in missing_pages : \E p \in DOMAIN output_dir.files : p[2] = n

\* the texts N of the links [[N]] of a document that have no alias
C3_PlainLinks(content) ==
    {t \in FindAll(content, M_Wiki, G_Wiki) : "|" \notin Range(t)}

\* the stub of the name N holds the identifier id, no other output document
\* does, and the output of the document f links [[N]] to that identifier
C3_Resolved(f, N, id) ==
    LET name == normalize_page_name(N)
        files == output_dir.files
        id_line == <<":", "I", "D", ":", Space, id, NL>>
    IN  /\ files[<<"pages", name>>] = StubContent(id, name)
        /\ \A p \in DOMAIN files \ {<<"pages", name>>} : ~Contains(files[p], id_line)
        /\ Contains(files[OutputFile(f)], IdLink(id, Strip(N)))
        /\ ~Contains(files[OutputFile(f)], <<"[", "[">> \o N \o <<"]", "]">>)

\* C3: a link [[N]] to a name that no source document has gives, after a run
\* without write failures, a stub N.org (N normalized) in pages with a fresh
\* :ID:, and every [[N]] is rewritten to [[id:<that identifier>][N]].
C3_MissingLinkResolves ==
    (pc = "done" /\ exit_code = <<0>> /\ write_failures = 0) =>
        \A f \in AllFiles :
            logseq_dir.files[f].readable =>
                \A N \in C3_PlainLinks(logseq_dir.files[f].content) :
                    normalize_page_name(N) \notin existing_pages \cup {<<>>} =>
                        /\ <<"pages", normalize_page_name(N)>> \in DOMAIN output_dir.files
                        /\ \E id \in Range(UuidAtoms) : C3_Resolved(f, N, id)

\* the steps from one pass to the next that the order scan, collect, create,
\* convert, copy allows
C4_PassSteps ==
    {<<"main", "scan">>, <<"main", "done">>, <<"scan", "collect">>,
     <<"collect", "create">>, <<"create", "convert">>, <<"convert", "copy">>,
     <<"copy", "summary">>, <<"summary", "done">>}

C4_StubErrors(st) ==
    Cardinality({k \in 1..Len(st.errors) : st.errors[k][1] = "stub"})

\* C4: the passes of convert_all run in the order scan, collect, create
\* stubs, convert, copy assets, each starting only when the loop of the one
\* before has ended; the names of missing_pages are materialized in the
\* create pass only, each once, before the first document is converted.
C4_PassesInOrder ==
    [][/\ pc' # pc =>
             /\ <<pc, pc'>> \in C4_PassSteps
             /\ pc \in {"scan", "collect", "create", "convert"} => todo = {}
       /\ existing_pages' # existing_pages => pc = "scan"
       /\ (\/ stats'.missing_pages_created # stats.missing_pages_created
           \/ C4_StubErrors(stats') # C4_StubErrors(stats)) => pc = "create"
       /\ (\/ stats'.files_processed # stats.files_processed
           \/ block_ids' # block_ids) => pc = "convert"
       /\ output_dir'.assets # output_dir.assets => pc = "copy"
       /\ (pc = "create" /\ pc' # pc) =>
             /\ pc' = "convert"
             /\ stats.files_processed = 0
             /\ stats.missing_pages_created + C4_StubErrors(stats)
                    = Cardinality(missing_pages)]_vars

\* a run that created a stub, converted two documents and copied an asset
C4_Witness ==
    /\ pc = "done"
    /\ exit_code = <<0>>
    /\ stats.missing_pages_created >= 1
    /\ stats.files_processed >= 2
    /\ stats.assets_copied >= 1

\* the documents whose conversion raised
C5_Failed == {f \in AllFiles : <<"convert", f>> \in Range(stats.errors)}

\* the documents the convert loop has visited
C5_Visited == AllFiles \ (IF pc = "convert" THEN todo ELSE {})

\* C5: a document whose conversion raises (it cannot be read, or its output
\* cannot be written) gets one entry in stats['errors'] and does not count
\* in files_processed; the other documents are converted and counted, and
\* the run ends with exit code 0.
C5_FailuresContained ==
    /\ pc \in {"convert", "copy", "summary", "done"} =>
          /\ C5_Failed \subseteq C5_Visited
          /\ \A f \in C5_Visited : ~logseq_dir.files[f].readable => f \in C5_Failed
          /\ Cardinality({k \in 1..Len(stats.errors) : stats.errors[k][1] = "convert"})
                 = Cardinality(C5_Failed)
          /\ stats.files_processed = Cardinality(C5_Visited \ C5_Failed)
          /\ \A f \in C5_Visited \ C5_Failed : OutputFile(f) \in DOMAIN output_dir.files
    /\ (pc = "done" /\ C5_Failed # {}) => exit_code = <<0>>

\* the document of pages could not be read, the one of journals, visited
\* after it, was converted, and the run ended with exit code 0
C5_Witness ==
    /\ pc = "done"
    /\ exit_code = <<0>>
    /\ <<"pages", <<"A">>>> \in C5_Failed
    /\ <<"journals", <<"A">>>> \in DOMAIN output_dir.files
    /\ stats.files_processed = 1
    /\ Len(stats.errors) >= 1

----------------------------------------------------------------------------
(* SpecAsset: convert_file's rewriting of one asset reference, written     *)
(* with the path assets/... and with the path ../assets/...                *)

MaxAltLen == 2

AssetLeads == {<<>>, <<"-", Space>>, <<"s", "e", "e", Space>>}
AssetMarks == {<<"!">>, <<>>}
AssetAlts == Texts({"a", Space}, MaxAltLen)
AssetNames == {<<"p", "i", "c", ".", "p", "n", "g">>, <<"d", "/", "p">>}

\* the reference [alt](dir assets/name) after a lead and a mark
AssetReference(ref, dir) ==
    ref.lead \o ref.mark \o <<"[">> \o ref.alt \o <<"]", "(">> \o dir \o AssetsDir
        \o ref.name \o <<")">>

\* org_content of convert_file on a document A of that text, in a converter
\* that knows page A
AssetDocument(text) ==
    ConvertDocument(text, <<"A">>, (<<"A">> :> <<"A">>),
                    [page_ids |-> (<<"A">> :> Uuid(1)), block_ids |-> <<>>,
                     missing_pages |-> {}, uuids |-> 1]).org_content

InitAsset ==
    /\ arg \in [lead : AssetLeads, mark : AssetMarks, alt : AssetAlts, name : AssetNames]
    /\ res = <<>>
    /\ NoRun

ConvertAsset ==
    /\ res = <<>>
    /\ res' = <<AssetDocument(AssetReference(arg, <<>>)),
                AssetDocument(AssetReference(arg, <<".", ".", "/">>))>>
    /\ UNCHANGED <<arg, runVars>>

NextAsset == ConvertAsset

SpecAsset == InitAsset /\ [][NextAsset]_vars

\* C9: after the per-document pipeline of convert_file, the image reference
\* ![alt](assets/name) and the same reference written ![alt](../assets/name)
\* give the same output text.
C9_OneAssetForm ==
    (res # <<>> /\ arg.mark = <<"!">>) => res[1] = res[2]

----------------------------------------------------------------------------
(* The passes after the scan.                                              *)

\* C11: once scan_existing_pages has returned, no step of a later pass
\* (collect, create stubs, convert, copy assets) changes existing_pages or
\* file_to_title.
C11_ScanResultsFrozen ==
    [][(pc \in {"collect", "create", "convert", "copy", "summary"}) =>
          (existing_pages' = existing_pages /\ file_to_title' = file_to_title)]_vars

\* a finished run that scanned a document whose title is not its name, made
\* a stub and converted a document
C11_Witness ==
    /\ pc = "done"
    /\ \E n \in DOMAIN file_to_title : file_to_title[n] # n
    /\ existing_pages # {}
    /\ stats.missing_pages_created >= 1
    /\ stats.files_processed >= 1

----------------------------------------------------------------------------
(* Protected elements and code spans in convert_markdown_to_org.           *)

\* the typed links [[id:...][...]] and the heading lines of a text
C12_Elements(content) ==
    {MatchTexts(content, M_OrgLink)[k] :
        k \in 1..Len(MatchTexts(content, M_OrgLink))}
    \cup {MatchTexts(content, M_OrgHeading)[k] :
            k \in 1..Len(MatchTexts(content, M_OrgHeading))}

\* C12: every typed link [[id:...][...]] and every line that looks like a
\* heading of the target dialect in the input of convert_markdown_to_org
\* stands verbatim in its output.
C12_ProtectedVerbatim ==
    res # <<>> => \A t \in C12_Elements(arg) : Contains(res[1], t)

\* C15: the text between the backticks of an inline code span stands
\* unchanged between the two '=' of the output of convert_markdown_to_org,
\* also when it holds bold, italic, strikethrough or link syntax.
C15_CodeSpanKept ==
    (res # <<>> /\ arg \in MdCodeInputs) =>
        \A body \in MdCodeBodies :
            Contains(arg, <<Backtick>> \o body \o <<Backtick>>) =>
                Contains(res[1], <<"=">> \o body \o <<"=">>)

----------------------------------------------------------------------------
(* SpecCollect: what collect_missing_pages takes from one aliased link.    *)

MaxAliasLen == 2

\* the names the converter knows when the document is read
CollectKnown == {<<"A">>}

CollectLeads == {<<>>, <<"s", "e", "e", Space>>, <<"-", Space>>, <<"x", NL>>}
CollectTargets == {<<"A">>, <<"B">>, <<"n", "/", "B">>}
CollectAliases == Texts({"c", Space}, MaxAliasLen) \ {<<>>}
CollectTrails == {<<>>, <<Space, "y">>, <<NL, "y">>}

\* the document lead [[target|alias]] trail
AliasedLink(ref) ==
    ref.lead \o <<"[", "[">> \o ref.target \o <<"|">> \o ref.alias
        \o <<"]", "]">> \o ref.trail

InitCollect ==
    /\ arg \in [lead : CollectLeads, target : CollectTargets,
                alias : CollectAliases, trail : CollectTrails]
    /\ res = <<>>
    /\ NoRun

\* the names the loop of collect_missing_pages adds for the document
CollectLink ==
    /\ res = <<>>
    /\ res' = <<MissingNames(AliasedLink(arg), CollectKnown)>>
    /\ UNCHANGED <<arg, runVars>>

NextCollect == CollectLink

SpecCollect == InitCollect /\ [][NextCollect]_vars

\* C14: for an aliased link [[target|alias]], the only name
\* collect_missing_pages can add to missing_pages is normalize(target), and
\* only when the target is not a known name; no name made of the alias or of
\* the joined text 'target|alias' is added.
C14_OnlyTargetCollected ==
    res # <<>> =>
        res[1] \subseteq
            (IF normalize_page_name(arg.target) \in CollectKnown THEN {}
             ELSE {normalize_page_name(arg.target)})

----------------------------------------------------------------------------
(* SpecEmbed: convert_file on a document that holds one block embed.       *)

EmbedLeads == {<<>>, <<"s", "e", "e", Space>>, <<"x", NL>>}
EmbedWords == {<<"e", "m", "b", "e", "d">>, <<"E", "M", "B", "E", "D">>}
EmbedGaps == {<<Space>>, <<Space, Space>>}
EmbedPages == {<<"A">>, <<"P">>, <<"n", "/", "P">>}
EmbedTokens == {<<"t">>, <<"6", "4", "a", "1", "-", "b", "2">>}
EmbedOthers == {<<"x">>, <<"x", Space, "y">>}
EmbedTrails == {<<>>, <<NL, "y">>}

\* the inner forms of an embed: a page link, a block token, neither
EmbedInners ==
    {[kind |-> "page", text |-> p] : p \in EmbedPages}
        \cup {[kind |-> "block", text |-> t] : t \in EmbedTokens}
        \cup {[kind |-> "other", text |-> x] : x \in EmbedOthers}

\* {{embed [[P]]}}, {{embed ((T))}} or {{embed x}}
EmbedText(ref) ==
    <<"{", "{">> \o ref.word \o ref.gap
        \o (CASE ref.inner.kind = "page" ->
                    <<"[", "[">> \o ref.inner.text \o <<"]", "]">>
              [] ref.inner.kind = "block" ->
                    <<"(", "(">> \o ref.inner.text \o <<")", ")">>
              [] OTHER -> ref.inner.text)
        \o <<"}", "}">>

\* convert_file on a document A of that text, in a converter that knows
\* page A: org_content and the registry after it
EmbedDocument(text) ==
    ConvertDocument(text, <<"A">>, (<<"A">> :> <<"A">>),
                    [page_ids |-> (<<"A">> :> Uuid(1)), block_ids |-> <<>>,
                     missing_pages |-> {}, uuids |-> 1])

InitEmbed ==
    /\ arg \in [lead : EmbedLeads, word : EmbedWords, gap : EmbedGaps,
                inner : EmbedInners, trail : EmbedTrails]
    /\ res = <<>>
    /\ NoRun

ConvertEmbed ==
    /\ res = <<>>
    /\ res' = <<EmbedDocument(arg.lead \o EmbedText(arg) \o arg.trail)>>
    /\ UNCHANGED <<arg, runVars>>

NextEmbed == ConvertEmbed

SpecEmbed == InitEmbed /\ [][NextEmbed]_vars

\* f'#+INCLUDE: "{page_name}.org"'
C13_PageInclude(P) ==
    <<"#", "+", "I", "N", "C", "L", "U", "D", "E", ":", Space>> \o <<"\"">> \o normalize_page_name(P) \o <<".", "o", "r", "g">> \o <<"\"">>

\* a line of the text is an include directive that holds the identifier
C13_IncludesId(content, id) ==
    \E k \in 1..Len(SplitLines(content)) :
        /\ Contains(SplitLines(content)[k], <<"#", "+", "I", "N", "C", "L", "U", "D", "E", ":", Space>>)
        /\ id \in Range(SplitLines(content)[k])

\* C13: in the per-document pipeline of convert_file, {{embed [[P]]}} ends
\* up as #+INCLUDE: "<normalized P>.org", {{embed ((T))}} as an include
\* directive carrying the identifier block_ids holds for T, and an embed
\* with neither inner form stays as it is.
C13_EmbedsResolved ==
    res # <<>> =>
        CASE arg.inner.kind = "page" ->
                 Contains(res[1].org_content, C13_PageInclude(arg.inner.text))
          [] arg.inner.kind = "block" ->
                 /\ arg.inner.text \in DOMAIN res[1].reg.block_ids
                 /\ C13_IncludesId(res[1].org_content,
                                   res[1].reg.block_ids[arg.inner.text])
          [] OTHER -> Contains(res[1].org_content, EmbedText(arg))

----------------------------------------------------------------------------
(* The output tree of a run.                                               *)

\* the identifier of the line ':ID: <identifier>' that follows ':PROPERTIES:'
\* at the head of an output document
C16_IdOf(content) == content[Len(<<":", "P", "R", "O", "P", "E", "R", "T", "I", "E", "S", ":", NL, ":", "I", "D", ":", Space>>) + 1]

\* C16: after a run, the :ID: of the output of every source document D is
\* the identifier page_ids holds for D's name (the one links [[D]] are
\* rewritten to), also when D's title is not its file name, and no two
\* output documents carry the same :ID:.
C16_HeaderIdIsPageId ==
    (pc = "done" /\ exit_code = <<0>> /\ write_failures = 0) =>
        /\ \A f \in AllFiles :
              logseq_dir.files[f].readable =>
                  C16_IdOf(output_dir.files[OutputFile(f)]) = page_ids[f[2]]
        /\ \A p \in DOMAIN output_dir.files : \A q \in DOMAIN output_dir.files :
              p # q => C16_IdOf(output_dir.files[p]) # C16_IdOf(output_dir.files[q])

----------------------------------------------------------------------------
(* SpecJournal: a run of main on an input directory whose documents are    *)
(* named by dates.                                                         *)

JournalDay == <<"2", "0", "2", "4", "_", "0", "1", "_", "0", "1">>
JournalDayDashed == <<"2", "0", "2", "4", "-", "0", "1", "-", "0", "1">>

JournalSlots ==
    {<<"pages", JournalDay>>, <<"pages", JournalDayDashed>>,
     <<"journals", JournalDay>>}

JournalDocuments ==
    {[readable |-> TRUE, content |-> t] :
        t \in {<<"[", "[">> \o JournalDayDashed \o <<"]", "]">>, <<"x">>}}
        \cup {[readable |-> FALSE, content |-> <<>>]}

JournalDirs ==
    {[exists |-> TRUE, folders |-> F, files |-> fs] :
        F \in SUBSET {"pages", "journals"},
        fs \in UNION {[S -> JournalDocuments] :
                        S \in {T \in SUBSET JournalSlots : Cardinality(T) <= MaxFiles}}}

InitJournal ==
    /\ arg = <<>>
    /\ res = <<>>
    /\ Constructed
    /\ logseq_dir \in {d \in JournalDirs : \A f \in DOMAIN d.files : f[1] \in d.folders}
                        \cup {[exists |-> FALSE, folders |-> {}, files |-> <<>>]}

SpecJournal == InitJournal /\ [][Next]_vars

\* C17: in one run of convert_all each path of the output tree is written
\* at most once: no two source documents have the same output path, and no
\* converted document is written over a stub.
C17_PathsWrittenOnce ==
    \A i \in 1..Len(written) : \A j \in 1..Len(written) :
        i # j => written[i] # written[j]

====
